---- MODULE Spec2Model ----
(***************************************************************************)
(* A model of the data core of the crop production dashboard (src/app.py): *)
(* load_data, which normalises the raw rows of the CSV file,               *)
(* calculate_yield_decline, the windowed yield-decline scan, and the       *)
(* group-by reducers prepare_time_series and get_state_average_yield.      *)
(*                                                                         *)
(* Text is a sequence of one-character strings, so that str.strip and      *)
(* str.split act on characters.  A float is an exact rational <<n, d>>     *)
(* with d > 0 in lowest terms; <<0, 0>> is NaN, <<1, 0>> is +inf and       *)
(* <<-1, 0>> is -inf.  Binary rounding error of the floats is below the    *)
(* resolution of the model.                                                *)
(***************************************************************************)
EXTENDS Integers, Sequences, FiniteSets

VARIABLES pc, raw, df, years, report, error, ts_data, state_avg

vars == <<pc, raw, df, years, report, error, ts_data, state_avg>>

-----------------------------------------------------------------------------
(* Text *)

Chars(s) ==
  CASE s = "Rice" -> <<"R", "i", "c", "e">>
    [] s = "Wheat" -> <<"W", "h", "e", "a", "t">>
    [] s = "Gujarat" -> <<"G", "u", "j", "a", "r", "a", "t">>
    [] s = "Punjab" -> <<"P", "u", "n", "j", "a", "b">>

\* A missing text cell (pandas NaN in an object column).
NaNText == <<"<NA>">>

IsSpace(c) == c \in {" ", "\t"}

Digits == <<"0", "1", "2", "3", "4", "5", "6", "7", "8", "9">>

IsDigit(c) == \E i \in 1..10 : Digits[i] = c

DigitValue(c) == (CHOOSE i \in 1..10 : Digits[i] = c) - 1

RECURSIVE LStrip(_)
LStrip(s) == IF s # <<>> /\ IsSpace(Head(s)) THEN LStrip(Tail(s)) ELSE s

RECURSIVE RStrip(_)
RStrip(s) ==
  IF s # <<>> /\ IsSpace(s[Len(s)]) THEN RStrip(SubSeq(s, 1, Len(s) - 1)) ELSE s

\* Series.str.strip(): a missing cell stays missing.
Strip(s) == IF s = NaNText THEN NaNText ELSE LStrip(RStrip(s))

\* Series.str.split('-').str[0]: the text before the first '-'.
RECURSIVE SplitFirst(_)
SplitFirst(s) ==
  IF s = <<>> \/ Head(s) = "-" THEN <<>> ELSE <<Head(s)>> \o SplitFirst(Tail(s))

RECURSIVE DigitsValue(_)
DigitsValue(s) ==
  IF s = <<>> THEN 0
  ELSE 10 * DigitsValue(SubSeq(s, 1, Len(s) - 1)) + DigitValue(s[Len(s)])

\* int(text) accepts surrounding whitespace and then needs decimal digits.
IntParseable(s) ==
  LET t == LStrip(RStrip(s)) IN t # <<>> /\ \A i \in 1..Len(t) : IsDigit(t[i])

ParseInt(s) == DigitsValue(LStrip(RStrip(s)))

-----------------------------------------------------------------------------
(* Floats as exact rationals *)

NaN == <<0, 0>>

PosInf == <<1, 0>>

NegInf == <<0 - 1, 0>>

Abs(n) == IF n < 0 THEN 0 - n ELSE n

RECURSIVE Gcd(_, _)
Gcd(a, b) == IF b = 0 THEN a ELSE Gcd(b, a % b)

\* n / d for integers n and d > 0, in lowest terms.
Norm(n, d) == LET g == Gcd(Abs(n), d) IN <<n \div g, d \div g>>

FromInt(n) == <<n, 1>>

IsNaN(q) == q = NaN

IsFinite(q) == q[2] > 0

RNeg(q) == <<0 - q[1], q[2]>>

\* Arithmetic of finite operands; NaN propagates.
RAdd(a, b) ==
  IF ~IsFinite(a) \/ ~IsFinite(b) THEN NaN
  ELSE LET g == Gcd(a[2], b[2])
           l == (a[2] \div g) * b[2]
       IN  Norm(a[1] * (l \div a[2]) + b[1] * (l \div b[2]), l)

RSub(a, b) == RAdd(a, RNeg(b))

RMul(a, b) ==
  IF ~IsFinite(a) \/ ~IsFinite(b) THEN NaN
  ELSE LET x == Norm(a[1], b[2])
           y == Norm(b[1], a[2])
       IN  <<x[1] * y[1], x[2] * y[2]>>

\* Float division: x / 0 is +inf or -inf, and 0 / 0 is NaN.
RDiv(a, b) ==
  IF ~IsFinite(a) \/ ~IsFinite(b) THEN NaN
  ELSE IF b[1] = 0
       THEN (IF a[1] > 0 THEN PosInf ELSE IF a[1] < 0 THEN NegInf ELSE NaN)
       ELSE IF b[1] > 0 THEN RMul(a, <<b[2], b[1]>>)
       ELSE RMul(a, <<0 - b[2], 0 - b[1]>>)

\* Comparisons: every comparison with NaN is false.
RGt(a, b) == IsFinite(a) /\ IsFinite(b) /\ a[1] * b[2] > b[1] * a[2]

RGe(a, b) == IsFinite(a) /\ IsFinite(b) /\ a[1] * b[2] >= b[1] * a[2]

RLe(a, b) == RGe(b, a)

\* The integer nearest to n / d (d > 0), a tie going to the even one.
RoundHalfEven(n, d) ==
  LET f == n \div d
      r == n % d
  IN  IF 2 * r < d THEN f
      ELSE IF 2 * r > d THEN f + 1
      ELSE IF f % 2 = 0 THEN f ELSE f + 1

\* round(x, 2)
Round2(q) ==
  IF ~IsFinite(q) THEN q ELSE Norm(RoundHalfEven(q[1] * 100, q[2]), 100)

-----------------------------------------------------------------------------
(* load_data *)

\* df['Year'].astype(str).str.split('-').str[0]
YearText(cell) == SplitFirst(cell)

\* .astype(int) converts the whole column, and raises ValueError on the
\* first text that is no integer.
YearsParseable(rows) ==
  \A i \in 1..Len(rows) : IntParseable(YearText(rows[i].Year))

\* Series.replace([np.inf, -np.inf], np.nan)
ReplaceInf(q) == IF q = PosInf \/ q = NegInf THEN NaN ELSE q

\* The quotient as the division leaves it, infinities kept.
YieldKeepingInf(production, area) == RDiv(FromInt(production), FromInt(area))

\* df['Yield'] = df['Production'] / df['Area'], infinities replaced by NaN.
YieldOf(production, area) ==
  ReplaceInf(RDiv(FromInt(production), FromInt(area)))

\* One row after the column assignments of load_data.  District and Season
\* are trimmed like State and are read by neither operation below; the rows
\* of the model leave them out.
LoadRow(r) ==
  [State |-> Strip(r.State),
   Crop |-> Strip(r.Crop),
   Year |-> ParseInt(YearText(r.Year)),
   Area |-> r.Area,
   Production |-> r.Production,
   Yield |-> YieldOf(r.Production, r.Area)]

\* DataFrame.dropna(subset=['Crop']): drops the rows whose Crop is missing.
DropNaCrop(rows) == SelectSeq(rows, LAMBDA r : r.Crop # NaNText)

LoadedTable(rows) == DropNaCrop([i \in 1..Len(rows) |-> LoadRow(rows[i])])

-----------------------------------------------------------------------------
(* calculate_yield_decline *)

MaxOf(S) ==
  IF S = {} THEN NaN
  ELSE LET x == CHOOSE y \in S : \A z \in S : y >= z IN FromInt(x)

\* A maximum that, like the built-in max(), raises on no rows.
RaisesOnEmpty(t, window) == t = <<>>

\* calculate_yield_decline has no raise statement and checks neither of its
\* arguments, and nothing it calls raises on a loaded table: Series.max() and
\* Series.mean() of no rows are NaN, and a comparison with NaN is false.
Raises(t, window) == FALSE

\* df['Year'].max(): NaN for a table without rows.
CurrentYear(t) == MaxOf({t[i].Year : i \in 1..Len(t)})

\* A window of `window` calendar years that ends with the last year.
StartYearInclusive(t, window) ==
  RAdd(RSub(CurrentYear(t), FromInt(window)), FromInt(1))

\* start_year = current_year - years
StartYear(t, window) == RSub(CurrentYear(t), FromInt(window))

\* The table without the filter on the period.
WholeTable(t, window) == t

\* df[(df['Year'] >= start_year) & (df['Year'] <= current_year)]
PeriodData(t, window) ==
  SelectSeq(t, LAMBDA r : /\ RGe(FromInt(r.Year), StartYear(t, window))
                          /\ RLe(FromInt(r.Year), CurrentYear(t)))

\* Series == value: a missing cell equals nothing.
TextEq(a, b) == a # NaNText /\ b # NaNText /\ a = b

\* Series.unique(): the distinct values in order of first appearance.
RECURSIVE Unique(_)
Unique(s) ==
  IF s = <<>> THEN <<>>
  ELSE LET init == Unique(SubSeq(s, 1, Len(s) - 1))
           x == s[Len(s)]
       IN  IF \E i \in 1..Len(init) : init[i] = x THEN init
           ELSE Append(init, x)

Column(t, name) == [i \in 1..Len(t) |-> t[i][name]]

\* period_data[(period_data['Crop'] == crop) & (period_data['State'] == state)]
PairSubset(p, crop, state) ==
  SelectSeq(p, LAMBDA r : TextEq(r.Crop, crop) /\ TextEq(r.State, state))

RECURSIVE RSum(_)
RSum(s) == IF s = <<>> THEN FromInt(0) ELSE RAdd(Head(s), RSum(Tail(s)))

\* Series.mean(): NaN cells are skipped; NaN when nothing is left.
Mean(s) ==
  LET v == SelectSeq(s, LAMBDA q : ~IsNaN(q))
  IN  IF v = <<>> THEN NaN ELSE RDiv(RSum(v), FromInt(Len(v)))

\* subset[subset['Year'] <= start_year + 2]
EarlyRows(sub, start) ==
  SelectSeq(sub, LAMBDA r : RLe(FromInt(r.Year), RAdd(start, FromInt(2))))

\* The rows of the last 2 years only.
RecentRowsLastTwo(sub, current) ==
  SelectSeq(sub, LAMBDA r : RGe(FromInt(r.Year), RSub(current, FromInt(1))))

\* subset[subset['Year'] >= current_year - 2]
RecentRows(sub, current) ==
  SelectSeq(sub, LAMBDA r : RGe(FromInt(r.Year), RSub(current, FromInt(2))))

EarlyYield(sub, start) == Mean(Column(EarlyRows(sub, start), "Yield"))

RecentYield(sub, current) == Mean(Column(RecentRows(sub, current), "Yield"))

\* pd.notna(early_years) and pd.notna(recent_years) and early_years > 0
HasBaseline(early, recent) ==
  ~IsNaN(early) /\ ~IsNaN(recent) /\ RGt(early, FromInt(0))

\* ((early_years - recent_years) / early_years) * 100
DeclinePct(early, recent) ==
  RMul(RDiv(RSub(early, recent), early), FromInt(100))

\* if decline_pct > 10
IsDecline(pct) == RGt(pct, FromInt(10))

\* The bands with their lower edges included.
SeverityInclusive(pct) ==
  IF RGe(pct, FromInt(30)) THEN "Critical"
  ELSE IF RGe(pct, FromInt(20)) THEN "High"
  ELSE "Moderate"

SeverityOf(pct) ==
  IF RGt(pct, FromInt(30)) THEN "Critical"
  ELSE IF RGt(pct, FromInt(20)) THEN "High"
  ELSE "Moderate"

\* The record with its percentage taken from the rounded yields.
DeclineRecordOfRounded(crop, state, pct, early, recent) ==
  [Crop |-> crop,
   State |-> state,
   Decline_Percentage |->
     Round2(RMul(RDiv(RSub(Round2(early), Round2(recent)), Round2(early)),
                 FromInt(100))),
   Early_Yield |-> Round2(early),
   Recent_Yield |-> Round2(recent),
   Severity |-> SeverityOf(pct)]

\* decline_list.append({...}): the values rounded to 2 decimals.
DeclineRecord(crop, state, pct, early, recent) ==
  [Crop |-> crop,
   State |-> state,
   Decline_Percentage |-> Round2(pct),
   Early_Yield |-> Round2(early),
   Recent_Yield |-> Round2(recent),
   Severity |-> SeverityOf(pct)]

\* if len(subset) < 2: continue
TooFewRows(sub) == Len(sub) < 2

\* The body of the two loops for one (crop, state): no record or one.
PairRecords(p, crop, state, start, current) ==
  LET sub == PairSubset(p, crop, state)
      early == EarlyYield(sub, start)
      recent == RecentYield(sub, current)
  IN  IF TooFewRows(sub) THEN <<>>
      ELSE IF ~HasBaseline(early, recent) THEN <<>>
      ELSE IF ~IsDecline(DeclinePct(early, recent)) THEN <<>>
      ELSE <<DeclineRecord(crop, state, DeclinePct(early, recent), early, recent)>>

RECURSIVE Concat(_)
Concat(ss) == IF ss = <<>> THEN <<>> ELSE Head(ss) \o Concat(Tail(ss))

\* decline_list after the loops over the crops and, inside, the states.
DeclineList(t, window) ==
  LET p == PeriodData(t, window)
      crops == Unique(Column(p, "Crop"))
      states == Unique(Column(p, "State"))
  IN  Concat([c \in 1..Len(crops) |->
        Concat([s \in 1..Len(states) |->
          PairRecords(p, crops[c], states[s], StartYear(t, window),
                      CurrentYear(t))])])

\* The ascending order.
InOrderAscending(a, b) == RLe(a.Decline_Percentage, b.Decline_Percentage)

\* The order sort_values('Decline_Percentage', ascending=False) asks for.
InOrder(a, b) == RGe(a.Decline_Percentage, b.Decline_Percentage)

IsSorted(s) == \A i \in 1..(Len(s) - 1) : InOrder(s[i], s[i + 1])

IndexOrders(n) ==
  {f \in [1..n -> 1..n] : \A i, j \in 1..n : f[i] = f[j] => i = j}

\* The orders the sort may return: the default sort kind is not stable, so
\* records with equal percentages may come in any order.
SortValues(s) ==
  {t \in {[i \in 1..Len(s) |-> s[f[i]]] : f \in IndexOrders(Len(s))} :
     IsSorted(t)}

-----------------------------------------------------------------------------
(* The group-by reducers *)

\* The characters of the tables in the order of their code points.
Alphabet ==
  <<" ", "G", "P", "R", "W", "a", "b", "c", "e", "h", "i", "j", "n", "r", "t", "u">>

CodeRank(c) == CHOOSE i \in 1..Len(Alphabet) : Alphabet[i] = c

\* a < b for two texts: the order of Python's str.
RECURSIVE TextLess(_, _)
TextLess(a, b) ==
  IF b = <<>> THEN FALSE
  ELSE IF a = <<>> THEN TRUE
  ELSE IF Head(a) = Head(b) THEN TextLess(Tail(a), Tail(b))
  ELSE CodeRank(Head(a)) < CodeRank(Head(b))

\* a < b for two keys of the column `name`: integers for Year, texts else.
KeyLess(name, a, b) == IF name = "Year" THEN a < b ELSE TextLess(a, b)

\* s, which is in ascending order, with the key x put in its place.
RECURSIVE InsertKey(_, _, _)
InsertKey(name, s, x) ==
  IF s = <<>> THEN <<x>>
  ELSE IF KeyLess(name, x, Head(s)) THEN <<x>> \o s
  ELSE <<Head(s)>> \o InsertKey(name, Tail(s), x)

RECURSIVE SortKeys(_, _)
SortKeys(name, s) ==
  IF s = <<>> THEN <<>>
  ELSE InsertKey(name, SortKeys(name, SubSeq(s, 1, Len(s) - 1)), s[Len(s)])

\* A missing key: the Year column holds integers, the others texts.
MissingKey(name, k) == name # "Year" /\ k = NaNText

\* The group keys as groupby(name, sort=False) would give them.
GroupKeysUnsorted(t, name) ==
  Unique(SelectSeq(Column(t, name), LAMBDA k : ~MissingKey(name, k)))

\* The group keys of DataFrame.groupby(name): sort=True and dropna=True are
\* the defaults, so the distinct keys that are not missing, ascending.
GroupKeys(t, name) ==
  SortKeys(name,
           Unique(SelectSeq(Column(t, name), LAMBDA k : ~MissingKey(name, k))))

GroupRows(t, name, key) == SelectSeq(t, LAMBDA r : r[name] = key)

RECURSIVE IntSum(_)
IntSum(s) == IF s = <<>> THEN 0 ELSE Head(s) + IntSum(Tail(s))

\* df.groupby(group_by).agg({'Area': 'sum', 'Production': 'sum',
\* 'Yield': 'mean'}).reset_index()
PrepareTimeSeries(t, group_by) ==
  LET keys == GroupKeys(t, group_by)
  IN  [k \in 1..Len(keys) |->
         LET g == GroupRows(t, group_by, keys[k])
         IN  [Key |-> keys[k],
              Area |-> IntSum(Column(g, "Area")),
              Production |-> IntSum(Column(g, "Production")),
              Yield |-> Mean(Column(g, "Yield"))]]

\* df[(df['Crop'] == crop) & (df['Year'] == year)]
CropYearSubset(t, crop, year) ==
  SelectSeq(t, LAMBDA r : TextEq(r.Crop, crop) /\ r.Year = year)

\* subset.groupby('State')['Yield'].mean().to_dict(): the entries of the
\* dict, which keeps the order of the grouped rows.
GetStateAverageYield(t, crop, year) ==
  LET subset == CropYearSubset(t, crop, year)
      keys == GroupKeys(subset, "State")
  IN  [k \in 1..Len(keys) |->
         [Key |-> keys[k],
          Yield |-> Mean(Column(GroupRows(subset, "State", keys[k]), "Yield"))]]

-----------------------------------------------------------------------------
(* The raw tables read from the CSV file *)

MaxRows == 2

MaxRawRows == 2

MaxWindow == 5

\* The window lengths tried; calculate_yield_decline does not restrict them.
Windows == (0 - 1)..MaxWindow

\* A Year cell of the file, "2016-17" for 2016.
YearCell(n) ==
  LET d(k) == Digits[k + 1]
      m == (n + 1) % 100
  IN  <<d(n \div 1000), d((n \div 100) % 10), d((n \div 10) % 10), d(n % 10),
        "-", d(m \div 10), d(m % 10)>>

RawRow(state, crop, year, production, area) ==
  [State |-> state, Crop |-> crop, Year |-> year,
   Area |-> area, Production |-> production]

SeqsUpTo(S, n) == UNION {[1..k -> S] : k \in 0..n}

\* (crop, state) of the rows of the well-formed tables.
Pairs == {<<Chars("Rice"), Chars("Gujarat")>>, <<Chars("Wheat"), Chars("Punjab")>>}

\* <<production, area>>: yields 2.5, 2.2497 and 1.9999, and one undefined.
GenericYields == {<<25000, 10000>>, <<22497, 10000>>, <<19999, 10000>>, <<5, 0>>}

GenericRows ==
  {RawRow(p[2], p[1], YearCell(y), q[1], q[2]) :
     p \in Pairs, y \in {2012, 2015, 2018, 2020}, q \in GenericYields}

GenericTables == SeqsUpTo(GenericRows, MaxRows)

\* Recent yields that put the decline from 2.5 on and about the thresholds
\* 10, 20 and 30, and one improvement.
ThresholdYields ==
  {<<22500, 10000>>, <<22499, 10000>>, <<22497, 10000>>,
   <<20000, 10000>>, <<19999, 10000>>, <<19997, 10000>>,
   <<17500, 10000>>, <<17499, 10000>>, <<17497, 10000>>, <<30000, 10000>>}

PairBlock(p, q) ==
  <<RawRow(p[2], p[1], YearCell(2015), 25000, 10000),
    RawRow(p[2], p[1], YearCell(2020), q[1], q[2])>>

\* One or two (crop, state) pairs, each with an early and a recent row.
ThresholdTables ==
  {PairBlock(<<Chars("Rice"), Chars("Gujarat")>>, q) : q \in ThresholdYields}
  \cup
  {PairBlock(<<Chars("Rice"), Chars("Gujarat")>>, q1)
     \o PairBlock(<<Chars("Wheat"), Chars("Punjab")>>, q2) :
     q1 \in ThresholdYields, q2 \in ThresholdYields}

\* DEFAULT_YEARS_LIST = range(2016, 2021, 1)
DefaultYears == <<2016, 2017, 2018, 2019, 2020>>

\* Rice in Gujarat (DEFAULT_CROP, DEFAULT_STATE), one row per default year,
\* with productions 20, 22, 18, 14 or 12 on an area of 10.
ScenarioTables ==
  {[i \in 1..5 |->
      RawRow(Chars("Gujarat"), Chars("Rice"), YearCell(DefaultYears[i]), f[i], 10)] :
     f \in [1..5 -> {20, 22, 18, 14, 12}]}

\* Rows as a file may hold them: padded, blank or missing crops, a year that
\* is no number, zero and negative areas.
DirtyCrops == {<<" ">> \o Chars("Rice") \o <<" ">>, <<" ", " ">>, NaNText}

DirtyYears == {YearCell(2019), <<"n", "a", "n">>}

DirtyAmounts == {<<25, 10>>, <<5, 0>>, <<0, 0>>, <<0 - 5, 0>>, <<4, 0 - 2>>}

DirtyRows ==
  {RawRow(Chars("Gujarat") \o <<" ">>, c, y, q[1], q[2]) :
     c \in DirtyCrops, y \in DirtyYears, q \in DirtyAmounts}

DirtyTables == SeqsUpTo(DirtyRows, MaxRawRows)

\* Rice in two states and two years, in every order of the rows.
GroupRowPool ==
  {RawRow(Chars(st), Chars("Rice"), YearCell(y), q, 10) :
     st \in {"Gujarat", "Punjab"}, y \in {2019, 2020}, q \in {20, 30}}

GroupTables == [1..2 -> GroupRowPool] \cup [1..3 -> GroupRowPool]

RawTables ==
  GenericTables \cup ThresholdTables \cup ScenarioTables \cup DirtyTables
    \cup GroupTables

-----------------------------------------------------------------------------
(* The program *)

Init ==
  /\ pc = "start"
  /\ raw \in RawTables
  /\ df = <<>>
  /\ years = 5
  /\ report = <<>>
  /\ error = "none"
  /\ ts_data = [group_by |-> "Year", rows |-> <<>>]
  /\ state_avg = [crop |-> <<>>, year |-> 0, rows |-> <<>>]

\* load_data(): the table, or the ValueError of the year conversion.
LoadData ==
  /\ pc = "start"
  /\ IF YearsParseable(raw)
     THEN /\ df' = LoadedTable(raw)
          /\ pc' = "loaded"
          /\ error' = "none"
     ELSE /\ df' = <<>>
          /\ pc' = "failed"
          /\ error' = "ValueError"
  /\ UNCHANGED <<raw, years, report, ts_data, state_avg>>

\* calculate_yield_decline(df, years): the sorted report.
CalculateYieldDecline ==
  /\ pc = "loaded"
  /\ \E w \in Windows :
       /\ years' = w
       /\ IF Raises(df, w)
          THEN /\ report' = <<>>
               /\ error' = "ValueError"
          ELSE /\ report' \in SortValues(DeclineList(df, w))
               /\ error' = "none"
  /\ pc' = "done"
  /\ UNCHANGED <<raw, df, ts_data, state_avg>>

\* prepare_time_series(df, group_by), by Year (the default) or by State.
PrepareTimeSeriesCall ==
  /\ pc = "loaded"
  /\ \E g \in {"Year", "State"} :
       ts_data' = [group_by |-> g, rows |-> PrepareTimeSeries(df, g)]
  /\ pc' = "series"
  /\ UNCHANGED <<raw, df, years, report, error, state_avg>>

\* get_state_average_yield(df, crop, year) for a crop and a year of the table.
GetStateAverageYieldCall ==
  /\ pc = "loaded"
  /\ \E i, j \in 1..Len(df) :
       state_avg' = [crop |-> df[i].Crop, year |-> df[j].Year,
                     rows |-> GetStateAverageYield(df, df[i].Crop, df[j].Year)]
  /\ pc' = "averaged"
  /\ UNCHANGED <<raw, df, years, report, error, ts_data>>

\* The reducers are pure functions of the loaded table, called in any order.
Next ==
  \/ LoadData
  \/ CalculateYieldDecline
  \/ PrepareTimeSeriesCall
  \/ GetStateAverageYieldCall

Spec == Init /\ [][Next]_vars

-----------------------------------------------------------------------------
(* Notions the properties use *)

Done == pc = "done" /\ error = "none"

Hundredths(n) == Norm(n, 100)

\* The table of the end-to-end scenario: yields 2.0, 2.2, 1.8, 1.4, 1.2.
ScenarioTable ==
  LET f == <<20, 22, 18, 14, 12>>
  IN  [i \in 1..5 |->
         RawRow(Chars("Gujarat"), Chars("Rice"), YearCell(DefaultYears[i]), f[i], 10)]

\* The rows of (crop, state) among the rows of t with lo <= Year <= hi.
RowsBetween(t, crop, state, lo, hi) ==
  {i \in 1..Len(t) : /\ t[i].Crop = crop
                     /\ t[i].State = state
                     /\ lo <= t[i].Year
                     /\ t[i].Year <= hi}

LastYear(t) == CHOOSE y \in {t[i].Year : i \in 1..Len(t)} :
                 \A i \in 1..Len(t) : t[i].Year <= y

MeanOf(t, S) ==
  LET ok == {i \in S : t[i].Yield[2] > 0}
      RECURSIVE Total(_)
      Total(X) == IF X = {} THEN <<0, 1>>
                  ELSE LET i == CHOOSE j \in X : TRUE
                       IN  RAdd(t[i].Yield, Total(X \ {i}))
  IN  IF ok = {} THEN NaN ELSE RDiv(Total(ok), <<Cardinality(ok), 1>>)

\* The means of a reported pair before rounding, and their percentage.
EarlyMean(t, window, rec) ==
  MeanOf(t, RowsBetween(t, rec.Crop, rec.State,
                        LastYear(t) - window, LastYear(t) - window + 2))

RecentMean(t, window, rec) ==
  MeanOf(t, RowsBetween(t, rec.Crop, rec.State, LastYear(t) - 2, LastYear(t)))

\* 100 * (early - recent) / early for early > 0, with the common factors
\* taken out before the products.
Percentage(early, recent) ==
  LET diff == RSub(early, recent)
      a == Norm(diff[1], early[1])
      b == Norm(early[2], diff[2])
      c == Norm(100, a[2] * b[2])
  IN  Norm(a[1] * b[1] * c[1], c[2])

ExactPct(t, window, rec) ==
  Percentage(EarlyMean(t, window, rec), RecentMean(t, window, rec))

\* q > n, q >= n and q <= n for a rational q and an integer n.
Above(q, n) == q[1] > n * q[2]

AtLeast(q, n) == q[1] >= n * q[2]

AtMost(q, n) == q[1] <= n * q[2]

-----------------------------------------------------------------------------
(* C1 *)

\* C1 as stated: on the scenario table with a window of 5 the report is one
\* record with Decline_Percentage 26.67 and Severity High.
C1_ScenarioIsHigh ==
  (Done /\ raw = ScenarioTable /\ years = 5) =>
     /\ Len(report) = 1
     /\ report[1].Decline_Percentage = Hundredths(2667)
     /\ report[1].Severity = "High"

\* C1, amended: on the scenario table with a window of 5 the report is one
\* record for Rice in Gujarat with Early_Yield 2.1 (the rows of 2016 and
\* 2017: start_year is 2015), Recent_Yield 1.47, Decline_Percentage 30.16 and
\* Severity Critical.
C1_ScenarioIsCritical ==
  (Done /\ raw = ScenarioTable /\ years = 5) =>
     /\ Len(report) = 1
     /\ report[1].Crop = Chars("Rice")
     /\ report[1].State = Chars("Gujarat")
     /\ report[1].Early_Yield = Hundredths(210)
     /\ report[1].Recent_Yield = Hundredths(147)
     /\ report[1].Decline_Percentage = Hundredths(3016)
     /\ report[1].Severity = "Critical"

C1_Witness == Done /\ raw = ScenarioTable /\ years = 5 /\ Len(report) = 1

-----------------------------------------------------------------------------
(* C2 *)

\* The band a percentage q falls in: (10, 20], (20, 30] or above 30.
InModerate(q) == Above(q, 10) /\ AtMost(q, 20)

InHigh(q) == Above(q, 20) /\ AtMost(q, 30)

InCritical(q) == Above(q, 30)

\* C2 as stated: every record of the report stores a Decline_Percentage
\* strictly above 10, and its Severity is the band of that stored value.
C2_BandsOfStoredValue ==
  Done =>
    \A i \in 1..Len(report) :
       LET d == report[i].Decline_Percentage
       IN  /\ Above(d, 10)
           /\ report[i].Severity = "Moderate" <=> InModerate(d)
           /\ report[i].Severity = "High" <=> InHigh(d)
           /\ report[i].Severity = "Critical" <=> InCritical(d)

\* C2, amended: every record of the report has a percentage strictly above
\* 10 before rounding, and its Severity is the band of that unrounded
\* percentage; the stored 2-decimal value is at least 10.00 and lies in the
\* band closed at both ends (10.00..20.00 Moderate, 20.00..30.00 High,
\* 30.00 and more Critical).
C2_BandsOfExactValue ==
  Done =>
    \A i \in 1..Len(report) :
       LET q == ExactPct(df, years, report[i])
           d == report[i].Decline_Percentage
           sev == report[i].Severity
       IN  /\ Above(q, 10)
           /\ AtLeast(d, 10)
           /\ sev \in {"Moderate", "High", "Critical"}
           /\ sev = "Moderate" <=> InModerate(q)
           /\ sev = "High" <=> InHigh(q)
           /\ sev = "Critical" <=> InCritical(q)
           /\ sev = "Moderate" => AtLeast(d, 10) /\ AtMost(d, 20)
           /\ sev = "High" => AtLeast(d, 20) /\ AtMost(d, 30)
           /\ sev = "Critical" => AtLeast(d, 30)

\* A report with a record stored at 10.00 and a High record stored at 20.00.
C2_Witness ==
  /\ Done
  /\ \E i \in 1..Len(report) :
       /\ report[i].Decline_Percentage = Hundredths(1000)
       /\ report[i].Severity = "Moderate"
  /\ \E i \in 1..Len(report) :
       /\ report[i].Decline_Percentage = Hundredths(2000)
       /\ report[i].Severity = "High"

-----------------------------------------------------------------------------
(* C3 *)

\* C3 as stated: the stored Decline_Percentage is the percentage of the
\* stored Early_Yield and Recent_Yield, rounded to 2 decimals.
C3_PctOfStoredYields ==
  Done =>
    \A i \in 1..Len(report) :
       /\ report[i].Early_Yield[1] > 0
       /\ report[i].Decline_Percentage =
            Round2(Percentage(report[i].Early_Yield, report[i].Recent_Yield))

\* C3, amended: the stored Decline_Percentage is (early - recent) / early *
\* 100 rounded to 2 decimals, where early and recent are the unrounded means
\* of the pair, of which the record stores the roundings to 2 decimals as
\* Early_Yield and Recent_Yield.
C3_PctOfExactYields ==
  Done =>
    \A i \in 1..Len(report) :
       LET early == EarlyMean(df, years, report[i])
           recent == RecentMean(df, years, report[i])
           cents(q) == Hundredths(RoundHalfEven(100 * q[1], q[2]))
       IN  /\ early[1] > 0 /\ early[2] > 0 /\ recent[2] > 0
           /\ report[i].Early_Yield = cents(early)
           /\ report[i].Recent_Yield = cents(recent)
           /\ report[i].Decline_Percentage = cents(Percentage(early, recent))

\* A record whose stored percentage is not the percentage of its stored yields.
C3_Witness ==
  /\ Done
  /\ \E i \in 1..Len(report) :
       /\ report[i].Early_Yield[1] > 0
       /\ report[i].Decline_Percentage #
            Round2(Percentage(report[i].Early_Yield, report[i].Recent_Yield))

-----------------------------------------------------------------------------
(* C4 *)

\* C4: a call with a negative window length ends in an error, not a report.
C4_NegativeWindowRaises == (pc = "done" /\ years < 0) => error # "none"

-----------------------------------------------------------------------------
(* C5 *)

ParseableRows(rows) ==
  SelectSeq(rows, LAMBDA r : IntParseable(SplitFirst(r.Year)))

\* C5: load_data ends without an error, and its table is the table of the
\* raw rows whose year is an integer before the first '-'.
C5_BadYearRowSkipped ==
  pc # "start" =>
    /\ error # "ValueError"
    /\ pc \in {"loaded", "done", "series", "averaged"}
    /\ df = LoadedTable(ParseableRows(raw))

-----------------------------------------------------------------------------
(* C6 *)

Blank(text) == \A i \in 1..Len(text) : text[i] \in {" ", "\t"}

\* C6: no row of the loaded table has a missing crop or a crop that is
\* empty after trimming.
C6_NoEmptyCrop ==
  pc \in {"loaded", "done"} =>
    \A i \in 1..Len(df) : df[i].Crop # NaNText /\ ~Blank(df[i].Crop)

-----------------------------------------------------------------------------
(* C7 *)

\* q is the quotient production / area of integers, area # 0.
IsQuotient(q, production, area) ==
  q[2] > 0 /\ q[1] * area = production * q[2]

\* C7 as stated: the yield of a loaded row is production / area when area is
\* above 0, and undefined for every other area (said here of the rows that
\* have a crop).
C7_UndefinedUnlessPositiveArea ==
  pc \in {"loaded", "done"} =>
    \A i \in 1..Len(df) :
       ~Blank(df[i].Crop) =>
          IF df[i].Area > 0
          THEN IsQuotient(df[i].Yield, df[i].Production, df[i].Area)
          ELSE df[i].Yield = NaN

\* C7, amended: the yield of a loaded row is production / area when area is
\* not 0, a negative area included (the quotient passes through), and it is
\* undefined (neither a number nor an infinity) exactly when area is 0,
\* whatever the production.
C7_UndefinedOnlyForZeroArea ==
  pc \in {"loaded", "done"} =>
    \A i \in 1..Len(df) :
       IF df[i].Area # 0
       THEN IsQuotient(df[i].Yield, df[i].Production, df[i].Area)
       ELSE df[i].Yield = NaN

\* A loaded table with a row of negative area and a row of area 0 whose
\* production is not 0.
C7_Witness ==
  /\ pc = "loaded"
  /\ \E i \in 1..Len(df) : df[i].Area < 0 /\ df[i].Yield[2] > 0
  /\ \E i \in 1..Len(df) :
       df[i].Area = 0 /\ df[i].Production # 0 /\ df[i].Yield = NaN

-----------------------------------------------------------------------------
(* C8 *)

\* C8: in the report every record's Decline_Percentage is at least that of
\* the record after it.
C8_ReportDescending ==
  Done =>
    \A i \in 1..(Len(report) - 1) :
       LET a == report[i].Decline_Percentage
           b == report[i + 1].Decline_Percentage
       IN  a[1] * b[2] >= b[1] * a[2]

\* A report of two records with different percentages that the loops found
\* in the other order.
C8_Witness ==
  /\ Done
  /\ Len(report) = 2
  /\ report[1].Decline_Percentage # report[2].Decline_Percentage
  /\ report[1].Crop = Chars("Wheat")
  /\ report[2].Crop = Chars("Rice")
  /\ df[1].Crop = Chars("Rice")

-----------------------------------------------------------------------------
(* C9 *)

\* C9: on a table without rows the call returns an empty report and raises
\* no error, whatever the window length.
C9_EmptyTableEmptyReport ==
  (pc = "done" /\ df = <<>>) => (report = <<>> /\ error = "none")

\* The call has returned on a table without rows, for a window of 5 years.
C9_Witness == pc = "done" /\ df = <<>> /\ years = 5 /\ error = "none"

-----------------------------------------------------------------------------
(* C10 *)

\* C10: a (crop, state) pair with exactly one row in the period window
\* start_year <= year <= current_year has no record in the report.
C10_SingleRowPairAbsent ==
  (Done /\ df # <<>>) =>
    \A k \in 1..Len(df) :
       LET inside == RowsBetween(df, df[k].Crop, df[k].State,
                                 LastYear(df) - years, LastYear(df))
       IN  Cardinality(inside) = 1 =>
             \A i \in 1..Len(report) :
                ~(report[i].Crop = df[k].Crop /\ report[i].State = df[k].State)

\* The call has returned on a table where a pair has one row in the window
\* and another row, of a higher yield, before the window.
C10_Witness ==
  /\ Done
  /\ years = 5
  /\ \E k, j \in 1..Len(df) :
       /\ df[j].Crop = df[k].Crop
       /\ df[j].State = df[k].State
       /\ df[k].Year = LastYear(df)
       /\ df[j].Year < LastYear(df) - years
       /\ df[j].Yield[2] > 0 /\ df[k].Yield[2] > 0
       /\ df[j].Yield[1] * df[k].Yield[2] > df[k].Yield[1] * df[j].Yield[2]
       /\ Cardinality(RowsBetween(df, df[k].Crop, df[k].State,
                                  LastYear(df) - years, LastYear(df))) = 1

-----------------------------------------------------------------------------
(* C11 *)

KeysOf(rows) == [k \in 1..Len(rows) |-> rows[k].Key]

KeySet(t, name) == {t[i][name] : i \in 1..Len(t)}

\* The rows are one per key of K, and in strictly ascending order of the key.
OnePerKeyAscending(rows, name, K) ==
  /\ {rows[k].Key : k \in 1..Len(rows)} = K
  /\ Len(rows) = Cardinality(K)
  /\ \A k \in 1..(Len(rows) - 1) :
       IF name = "Year" THEN rows[k].Key < rows[k + 1].Key
       ELSE TextLess(rows[k].Key, rows[k + 1].Key)

\* The keys are those of the column, each once, in the order in which each
\* first appears in it.
InFirstAppearanceOrder(keys, column) ==
  /\ {keys[k] : k \in 1..Len(keys)} = {column[i] : i \in 1..Len(column)}
  /\ \A k \in 1..Len(keys) : \A l \in 1..Len(keys) : keys[k] = keys[l] => k = l
  /\ \A k \in 1..(Len(keys) - 1) :
       LET first(x) == CHOOSE i \in 1..Len(column) :
                         column[i] = x /\ \A j \in 1..(i - 1) : column[j] # x
       IN  first(keys[k]) < first(keys[k + 1])

\* C11 as stated: the result of prepare_time_series, and of the group-by of
\* get_state_average_yield, has one row per distinct key of the table, in
\* the order in which each key first appears in the table.
C11_RowsInFirstAppearanceOrder ==
  /\ pc = "series" =>
       InFirstAppearanceOrder(KeysOf(ts_data.rows), Column(df, ts_data.group_by))
  /\ pc = "averaged" =>
       InFirstAppearanceOrder(
         KeysOf(state_avg.rows),
         Column(CropYearSubset(df, state_avg.crop, state_avg.year), "State"))

\* C11, amended: the result of prepare_time_series, and of the group-by of
\* get_state_average_yield, has exactly one row per distinct key present in
\* the table, and the rows are in ascending order of the key (not in the
\* order of first appearance).
C11_RowsInKeyOrder ==
  /\ pc = "series" =>
       OnePerKeyAscending(ts_data.rows, ts_data.group_by,
                          KeySet(df, ts_data.group_by))
  /\ pc = "averaged" =>
       OnePerKeyAscending(
         state_avg.rows, "State",
         KeySet(CropYearSubset(df, state_avg.crop, state_avg.year), "State"))

\* A time series by Year of a table whose first row has the later of two
\* years.
C11_Witness ==
  /\ pc = "series"
  /\ ts_data.group_by = "Year"
  /\ Len(ts_data.rows) = 2
  /\ Len(df) = 3
  /\ df[1].Year > df[2].Year
  /\ ts_data.rows[1].Key = df[2].Year
  /\ ts_data.rows[2].Key = df[1].Year

-----------------------------------------------------------------------------
(* C12 *)

\* The rows of the pair of row k of the table in the period window, as the
\* loops of calculate_yield_decline select them.
SubsetOf(k) == PairSubset(PeriodData(df, years), df[k].Crop, df[k].State)

\* The rows averaged into the early mean and into the recent mean.
EarlySet(k) ==
  LET rows == EarlyRows(SubsetOf(k), StartYear(df, years))
  IN  {rows[i] : i \in 1..Len(rows)}

RecentSet(k) ==
  LET rows == RecentRows(SubsetOf(k), CurrentYear(df))
  IN  {rows[i] : i \in 1..Len(rows)}

\* The pairs whose means are computed: those with 2 rows or more in the
\* period window.
Averaged(k) == Len(SubsetOf(k)) >= 2

\* C12 as stated: for a pair the rows of the early mean and those of the
\* recent mean share no row if and only if the window length is at least 5
\* (said here of the pairs that have a row in each of the two means).
C12_DisjointIffFiveYears ==
  Done =>
    \A k \in 1..Len(df) :
       (Averaged(k) /\ EarlySet(k) # {} /\ RecentSet(k) # {}) =>
          ((EarlySet(k) \cap RecentSet(k) = {}) <=> years >= 5)

\* C12, amended: for a pair the rows of the early mean and those of the
\* recent mean share no row whenever the window length is at least 5; for a
\* window length of 4 or less the shared rows are the rows of the pair in the
\* period window with current_year - 2 <= year <= start_year + 2, so that a
\* row of the period window with year = current_year - 2 is counted in both
\* means, and the two sets are still disjoint when the pair has no row in
\* those years.
C12_SharedRows ==
  Done =>
    \A k \in 1..Len(df) :
       Averaged(k) =>
         LET last == LastYear(df)
             sub == SubsetOf(k)
             shared == EarlySet(k) \cap RecentSet(k)
         IN  /\ years >= 5 => shared = {}
             /\ shared = {sub[i] : i \in {j \in 1..Len(sub) :
                             /\ last - 2 <= sub[j].Year
                             /\ sub[j].Year <= last - years + 2}}
             /\ years <= 4 =>
                  \A i \in 1..Len(sub) :
                     sub[i].Year = last - 2 => sub[i] \in shared

\* A window of 4 years and a pair whose row of the year current_year - 2 is
\* counted in both means.
C12_Witness ==
  /\ Done
  /\ years = 4
  /\ \E k \in 1..Len(df) :
       /\ Averaged(k)
       /\ df[k].Year = LastYear(df) - 2
       /\ df[k] \in EarlySet(k)
       /\ df[k] \in RecentSet(k)
       /\ EarlySet(k) # RecentSet(k)

====
